---- MODULE Spec2Model ----
(***************************************************************************)
(* Model of the two HTTP endpoints of api/views.py:                        *)
(*   recognize_face              (face verification pipeline)              *)
(*   convert_video_to_audio_api  (video to audio extraction)               *)
(* Requests of one worker process run concurrently (one thread each) and   *)
(* share the temp directory / MEDIA_ROOT of that process.                  *)
(* Similarities and thresholds are in hundredths: 45 stands for 0.45 and   *)
(* -100 for the sentinel -1.                                               *)
(***************************************************************************)
EXTENDS Integers, Sequences, FiniteSets, TLC

\* ---------------------------------------------------------------- bounds
NumIds == 2          \* distinct values os.urandom(4).hex() is drawn from
MaxFaces == 2        \* len(faces) ranges over 0..MaxFaces

\* the in-flight recognize_face requests of one worker process (one thread each)
Reqs == {1, 2}
\* the in-flight convert_video_to_audio_api requests
Convs == {1, 2}
\* uploaded file names, as <<base name, extension>>
Names == {<<"clip", "mp4">>, <<"clip", "mov">>}
Ids == 1..NumIds

\* ------------------------------------------------------ program constants
VERIFICATION_THRESHOLD == 45
HTTP_200_OK == 200
HTTP_201_CREATED == 201
HTTP_400_BAD_REQUEST == 400
HTTP_500_INTERNAL_SERVER_ERROR == 500

\* cosine similarities the comparison is exercised with (hundredths)
Sims == {VERIFICATION_THRESHOLD - 1, VERIFICATION_THRESHOLD, VERIFICATION_THRESHOLD + 1}

VARIABLES
    GLOBAL_FACE_APP,      \* TRUE: model loaded, FALSE: None
    pc,                   \* position of each request in recognize_face
    has_live_image,       \* request.FILES.get('live_image') is truthy
    reference_url,        \* "absent" | "empty" | "url"
    unique_id,            \* os.urandom(4).hex() of the request, 0 before it is drawn
    files,                \* the temp directory: path -> file state
    pending,              \* the return statement waiting for the finally block
    verification_result,  \* <<>> (None) or <<dict>>
    response,             \* <<>> or <<[status, body]>>
    seen_live, seen_ref,  \* what cv2.imread found at the two paths
    saved, downloaded,    \* how the two writes ended: "none" | "ok" | "failed"
    faces_live, faces_ref,\* len(faces) of each image, -1 while GLOBAL_FACE_APP.get has not returned
    steps,                \* pipeline steps the request has gone through, in order
    apc,                  \* position of each request in convert_video_to_audio_api
    video_name,           \* <<unique_id, video_file.name>> of the request, <<>> before
    media,                \* MEDIA_ROOT: path -> file state
    converted_audio_path, \* FALSE (None) or TRUE (the path convert_video_to_audio returned)
    conversion,           \* how convert_video_to_audio ended: "none" | "ok" | "failed"
    aresponse             \* <<>> or <<[status, body]>>

face_vars == <<GLOBAL_FACE_APP, pc, has_live_image, reference_url, unique_id, files,
               pending, verification_result, response, seen_live, seen_ref, saved,
               downloaded, faces_live, faces_ref, steps>>

audio_vars == <<apc, video_name, media, converted_audio_path, conversion, aresponse>>

vars == <<face_vars, audio_vars>>

\* ------------------------------------------------------------ file system
Paths == {"camera", "firebase"} \X Ids

NoFile == [exists |-> FALSE, owner |-> 0, complete |-> FALSE]

File(r, full) == [exists |-> TRUE, owner |-> r, complete |-> full]

camera_temp_path(r) == <<"camera", unique_id[r]>>

firebase_temp_path(r) == <<"firebase", unique_id[r]>>

\* what a read of path p by request r finds
ReadTag(r, p) ==
    IF ~files[p].exists THEN "missing"
    ELSE IF files[p].owner = r /\ files[p].complete THEN "own"
    ELSE "other"

\* os.path.join(upload_dir, f'video_{unique_id}_{video_file.name}')
VideoPath(id, name) == <<"uploads", id, name[1], name[2]>>

\* convert_video_to_audio: splitext(basename(video_path))[0] + ".mp3" in output_dir
OutputPath(video_path) == <<"audio_output", video_path[2], video_path[3], "mp3">>

MediaPaths == {VideoPath(id, name) : id \in Ids, name \in Names}
              \cup {OutputPath(VideoPath(id, name)) : id \in Ids, name \in Names}

temp_video_path(a) == VideoPath(video_name[a][1], video_name[a][2])

output_path(a) == OutputPath(temp_video_path(a))

\* ------------------------------------------------------------------ Init
Init ==
    /\ GLOBAL_FACE_APP \in BOOLEAN
    /\ pc = [r \in Reqs |-> "request"]
    /\ has_live_image = [r \in Reqs |-> FALSE]
    /\ reference_url = [r \in Reqs |-> "absent"]
    /\ unique_id = [r \in Reqs |-> 0]
    /\ files = [p \in Paths |-> NoFile]
    /\ pending = [r \in Reqs |-> "none"]
    /\ verification_result = [r \in Reqs |-> <<>>]
    /\ response = [r \in Reqs |-> <<>>]
    /\ seen_live = [r \in Reqs |-> "unread"]
    /\ seen_ref = [r \in Reqs |-> "unread"]
    /\ saved = [r \in Reqs |-> "none"]
    /\ downloaded = [r \in Reqs |-> "none"]
    /\ faces_live = [r \in Reqs |-> -1]
    /\ faces_ref = [r \in Reqs |-> -1]
    /\ steps = [r \in Reqs |-> <<>>]
    /\ apc = [a \in Convs |-> "request"]
    /\ video_name = [a \in Convs |-> <<>>]
    /\ media = [p \in MediaPaths |-> NoFile]
    /\ converted_audio_path = [a \in Convs |-> FALSE]
    /\ conversion = [a \in Convs |-> "none"]
    /\ aresponse = [a \in Convs |-> <<>>]

\* ------------------------------------------------------------- messages
\* a message text with the values formatted into it
Msg(text, label, n) == [text |-> text, label |-> label, n |-> n]

None == Msg("None", "", 0)

\* Python truthiness of verification_result['error']
Truthy(e) == e # None

Append1(r, step) == [steps EXCEPT ![r] = Append(@, step)]

\* ------------------------------------------------- download_file_from_url
\* variant: the exception is swallowed and True is returned
download_always_true(outcome) == TRUE

\* TRUE when urlretrieve returned, FALSE for any exception it raised
download_file_from_url(outcome) == outcome = "ok"

\* ------------------------------- perform_face_recognition_verification
ResultDict(matched, similarity, threshold, error) ==
    [matched |-> matched, similarity |-> similarity,
     threshold |-> threshold, error |-> error]

ModelUnavailable ==
    ResultDict(FALSE, -100, -100,
               Msg("Face recognition service is unavailable (model failed to load).", "", 0))

ProcessingFailed ==
    ResultDict(FALSE, -100, -100,
               Msg("InsightFace processing failed unexpectedly", "", 0))

DetectionError(error) == ResultDict(FALSE, -100, VERIFICATION_THRESHOLD, error)

\* get_face_embedding: readable is "cv2.imread returned an image", raises is an
\* exception of the library call; the result is the (embedding, error) pair
get_face_embedding(readable, raises, nfaces, label) ==
    IF ~readable \/ raises THEN [kind |-> "raise", error |-> None]
    ELSE IF nfaces = 0
        THEN [kind |-> "error", error |-> Msg("Face detection failed", label, 0)]
    ELSE IF nfaces > 1
        THEN [kind |-> "error", error |-> Msg("Multiple faces detected", label, nfaces)]
    ELSE [kind |-> "ok", error |-> None]

\* variant: the threshold itself counts as a match
CompareGe(similarity) ==
    ResultDict(similarity >= VERIFICATION_THRESHOLD, similarity,
               VERIFICATION_THRESHOLD, None)

Compare(similarity) ==
    ResultDict(similarity > VERIFICATION_THRESHOLD, similarity,
               VERIFICATION_THRESHOLD, None)

\* ------------------------------------------------- recognize_face: responses
MissingLiveImage ==
    [status |-> HTTP_400_BAD_REQUEST,
     body |-> [error |-> Msg("Missing required file: live_image (from camera)", "", 0)]]

MissingReferenceUrl ==
    [status |-> HTTP_400_BAD_REQUEST,
     body |-> [error |-> Msg("Missing required field: reference_url", "", 0)]]

DownloadFailed ==
    [status |-> HTTP_400_BAD_REQUEST,
     body |-> [error |-> Msg("Could not download reference image from URL", "", 0)]]

IOFailed ==
    [status |-> HTTP_500_INTERNAL_SERVER_ERROR,
     body |-> [error |-> Msg("File or IO processing failed", "", 0)]]

\* an exception that leaves the view; the framework answers 500
Unhandled ==
    [status |-> HTTP_500_INTERNAL_SERVER_ERROR,
     body |-> [error |-> Msg("unhandled exception", "", 0)]]

\* variant: a verifier error is answered 400
BuildResponse400(res) ==
    IF Truthy(res.error)
    THEN [status |-> HTTP_400_BAD_REQUEST,
          body |-> [matched |-> FALSE, distance |-> res.similarity,
                    threshold |-> res.threshold, message |-> res.error]]
    ELSE [status |-> HTTP_200_OK,
          body |-> [matched |-> res.matched, distance |-> res.similarity,
                    threshold |-> res.threshold,
                    message |-> IF res.matched
                                THEN Msg("Face verified successfully.", "", 0)
                                ELSE Msg("Faces do not match.", "", 0)]]

\* variant: the error payload keeps the verifier's key 'similarity'
BuildResponseSimilarityKey(res) ==
    IF Truthy(res.error)
    THEN [status |-> HTTP_200_OK,
          body |-> [matched |-> FALSE, similarity |-> res.similarity,
                    threshold |-> res.threshold, message |-> res.error]]
    ELSE [status |-> HTTP_200_OK,
          body |-> [matched |-> res.matched, distance |-> res.similarity,
                    threshold |-> res.threshold,
                    message |-> IF res.matched
                                THEN Msg("Face verified successfully.", "", 0)
                                ELSE Msg("Faces do not match.", "", 0)]]

\* step 6 of recognize_face
BuildResponse(res) ==
    IF Truthy(res.error)
    THEN [status |-> HTTP_200_OK,
          body |-> [matched |-> FALSE, distance |-> res.similarity,
                    threshold |-> res.threshold, message |-> res.error]]
    ELSE [status |-> HTTP_200_OK,
          body |-> [matched |-> res.matched, distance |-> res.similarity,
                    threshold |-> res.threshold,
                    message |-> IF res.matched
                                THEN Msg("Face verified successfully.", "", 0)
                                ELSE Msg("Faces do not match.", "", 0)]]

\* variant: reference_url is checked before live_image
ValidationErrorUrlFirst(live, url) ==
    IF url # "url" THEN <<MissingReferenceUrl>>
    ELSE IF ~live THEN <<MissingLiveImage>>
    ELSE <<>>

\* step 2: the 400 response of a missing field, <<>> when both are present
ValidationError(live, url) ==
    IF ~live THEN <<MissingLiveImage>>
    ELSE IF url # "url" THEN <<MissingReferenceUrl>>
    ELSE <<>>

\* ------------------------------------------------- recognize_face: actions
\* steps 1-3: read the fields, validate, draw the temp paths
Validate(r) ==
    /\ pc[r] = "request"
    /\ \E live \in BOOLEAN, url \in {"absent", "empty", "url"} :
        /\ has_live_image' = [has_live_image EXCEPT ![r] = live]
        /\ reference_url' = [reference_url EXCEPT ![r] = url]
        /\ IF ValidationError(live, url) # <<>>
           THEN /\ response' = [response EXCEPT ![r] = ValidationError(live, url)]
                /\ pc' = [pc EXCEPT ![r] = "done"]
                /\ UNCHANGED unique_id
           ELSE /\ \E id \in Ids : unique_id' = [unique_id EXCEPT ![r] = id]
                /\ pc' = [pc EXCEPT ![r] = "save"]
                /\ UNCHANGED response
    /\ steps' = Append1(r, "validate")
    /\ UNCHANGED audio_vars
    /\ UNCHANGED <<GLOBAL_FACE_APP, files, pending, verification_result,
                   seen_live, seen_ref, saved, downloaded, faces_live, faces_ref>>

\* variant: a failed write of the live image is ignored and the pipeline goes on
SaveLiveIgnoringFailure(r) ==
    /\ pc[r] = "save"
    /\ \E outcome \in {"ok", "open_fails", "write_fails"} :
        /\ files' = IF outcome = "open_fails" THEN files
                    ELSE [files EXCEPT ![camera_temp_path(r)] = File(r, outcome = "ok")]
        /\ saved' = [saved EXCEPT ![r] = IF outcome = "ok" THEN "ok" ELSE "failed"]
    /\ pc' = [pc EXCEPT ![r] = "download"]
    /\ steps' = Append1(r, "save_live")
    /\ UNCHANGED audio_vars
    /\ UNCHANGED <<GLOBAL_FACE_APP, has_live_image, reference_url, unique_id, pending,
                   verification_result, response, seen_live, seen_ref, downloaded,
                   faces_live, faces_ref>>

\* with open(camera_temp_path, 'wb+'): write the chunks
SaveLive(r) ==
    /\ pc[r] = "save"
    /\ \E outcome \in {"ok", "open_fails", "write_fails"} :
        /\ files' = IF outcome = "open_fails" THEN files
                    ELSE [files EXCEPT ![camera_temp_path(r)] = File(r, outcome = "ok")]
        /\ saved' = [saved EXCEPT ![r] = IF outcome = "ok" THEN "ok" ELSE "failed"]
        /\ IF outcome = "ok"
           THEN /\ pc' = [pc EXCEPT ![r] = "download"]
                /\ UNCHANGED pending
           ELSE /\ pc' = [pc EXCEPT ![r] = "finally_camera"]
                /\ pending' = [pending EXCEPT ![r] = "io_failed"]
    /\ steps' = Append1(r, "save_live")
    /\ UNCHANGED audio_vars
    /\ UNCHANGED <<GLOBAL_FACE_APP, has_live_image, reference_url, unique_id,
                   verification_result, response, seen_live, seen_ref, downloaded,
                   faces_live, faces_ref>>

\* download_file_from_url(reference_image_url, firebase_temp_path)
Download(r) ==
    /\ pc[r] = "download"
    /\ \E outcome \in {"ok", "fails_before_write", "fails_in_write"} :
        /\ files' = IF outcome = "fails_before_write" THEN files
                    ELSE [files EXCEPT ![firebase_temp_path(r)] = File(r, outcome = "ok")]
        /\ downloaded' = [downloaded EXCEPT ![r] = IF outcome = "ok" THEN "ok" ELSE "failed"]
        /\ IF download_file_from_url(outcome)
           THEN /\ pc' = [pc EXCEPT ![r] = "verify_live"]
                /\ UNCHANGED pending
           ELSE /\ pc' = [pc EXCEPT ![r] = "finally_camera"]
                /\ pending' = [pending EXCEPT ![r] = "download_failed"]
    /\ steps' = Append1(r, "download_ref")
    /\ UNCHANGED audio_vars
    /\ UNCHANGED <<GLOBAL_FACE_APP, has_live_image, reference_url, unique_id,
                   verification_result, response, seen_live, seen_ref, saved,
                   faces_live, faces_ref>>

\* perform_face_recognition_verification, up to the live image
VerifyLive(r) ==
    /\ pc[r] = "verify_live"
    /\ IF ~GLOBAL_FACE_APP
       THEN /\ verification_result' = [verification_result EXCEPT ![r] = <<ModelUnavailable>>]
            /\ pc' = [pc EXCEPT ![r] = "finally_camera"]
            /\ UNCHANGED <<seen_live, faces_live>>
       ELSE /\ seen_live' = [seen_live EXCEPT ![r] = ReadTag(r, camera_temp_path(r))]
            /\ \E decodes \in BOOLEAN, raises \in BOOLEAN, nfaces \in 0..MaxFaces :
                LET readable == files[camera_temp_path(r)].exists /\ decodes
                    e == get_face_embedding(readable, raises, nfaces, "live camera")
                IN  /\ faces_live' = [faces_live EXCEPT ![r] =
                                         IF e.kind = "raise" THEN -1 ELSE nfaces]
                    /\ IF e.kind = "raise"
                       THEN /\ verification_result' =
                                  [verification_result EXCEPT ![r] = <<ProcessingFailed>>]
                            /\ pc' = [pc EXCEPT ![r] = "finally_camera"]
                       ELSE IF e.kind = "error"
                       THEN /\ verification_result' =
                                  [verification_result EXCEPT ![r] = <<DetectionError(e.error)>>]
                            /\ pc' = [pc EXCEPT ![r] = "finally_camera"]
                       ELSE /\ pc' = [pc EXCEPT ![r] = "verify_ref"]
                            /\ UNCHANGED verification_result
    /\ steps' = Append1(r, "verify")
    /\ UNCHANGED audio_vars
    /\ UNCHANGED <<GLOBAL_FACE_APP, has_live_image, reference_url, unique_id, files,
                   pending, response, seen_ref, saved, downloaded, faces_ref>>

\* perform_face_recognition_verification, the reference image and the comparison
VerifyRef(r) ==
    /\ pc[r] = "verify_ref"
    /\ seen_ref' = [seen_ref EXCEPT ![r] = ReadTag(r, firebase_temp_path(r))]
    /\ \E decodes \in BOOLEAN, raises \in BOOLEAN, nfaces \in 0..MaxFaces,
          similarity \in Sims, compare_raises \in BOOLEAN :
        LET readable == files[firebase_temp_path(r)].exists /\ decodes
            e == get_face_embedding(readable, raises, nfaces, "Firebase reference")
        IN  /\ faces_ref' = [faces_ref EXCEPT ![r] = IF e.kind = "raise" THEN -1 ELSE nfaces]
            /\ verification_result' = [verification_result EXCEPT ![r] =
                    IF e.kind = "raise" THEN <<ProcessingFailed>>
                    ELSE IF e.kind = "error" THEN <<DetectionError(e.error)>>
                    ELSE IF compare_raises THEN <<ProcessingFailed>>
                    ELSE <<Compare(similarity)>>]
    /\ pc' = [pc EXCEPT ![r] = "finally_camera"]
    /\ UNCHANGED audio_vars
    /\ UNCHANGED <<GLOBAL_FACE_APP, has_live_image, reference_url, unique_id, files,
                   pending, response, seen_live, saved, downloaded, faces_live, steps>>

\* the end of the finally block: the pending return statement takes effect,
\* or control falls through to step 6
LeaveFinally(r) ==
    IF pending[r] = "download_failed"
    THEN /\ response' = [response EXCEPT ![r] = <<DownloadFailed>>]
         /\ pc' = [pc EXCEPT ![r] = "done"]
    ELSE IF pending[r] = "io_failed"
    THEN /\ response' = [response EXCEPT ![r] = <<IOFailed>>]
         /\ pc' = [pc EXCEPT ![r] = "done"]
    ELSE /\ pc' = [pc EXCEPT ![r] = "respond"]
         /\ UNCHANGED response

\* os.remove of a path that is gone raises FileNotFoundError out of the view
RaiseFromFinally(r) ==
    /\ response' = [response EXCEPT ![r] = <<Unhandled>>]
    /\ pc' = [pc EXCEPT ![r] = "done"]

\* finally: if os.path.exists(camera_temp_path)
FinallyCamera(r) ==
    /\ pc[r] = "finally_camera"
    /\ pc' = [pc EXCEPT ![r] = IF files[camera_temp_path(r)].exists
                                THEN "remove_camera" ELSE "finally_firebase"]
    /\ steps' = Append1(r, "cleanup")
    /\ UNCHANGED audio_vars
    /\ UNCHANGED <<GLOBAL_FACE_APP, has_live_image, reference_url, unique_id, files,
                   pending, verification_result, response, seen_live, seen_ref,
                   saved, downloaded, faces_live, faces_ref>>

\* finally: os.remove(camera_temp_path)
RemoveCamera(r) ==
    /\ pc[r] = "remove_camera"
    /\ IF files[camera_temp_path(r)].exists
       THEN /\ files' = [files EXCEPT ![camera_temp_path(r)] = NoFile]
            /\ pc' = [pc EXCEPT ![r] = "finally_firebase"]
            /\ UNCHANGED response
       ELSE /\ RaiseFromFinally(r)
            /\ UNCHANGED files
    /\ UNCHANGED audio_vars
    /\ UNCHANGED <<GLOBAL_FACE_APP, has_live_image, reference_url, unique_id,
                   pending, verification_result, seen_live, seen_ref, saved,
                   downloaded, faces_live, faces_ref, steps>>

\* finally: if os.path.exists(firebase_temp_path)
FinallyFirebase(r) ==
    /\ pc[r] = "finally_firebase"
    /\ IF files[firebase_temp_path(r)].exists
       THEN /\ pc' = [pc EXCEPT ![r] = "remove_firebase"]
            /\ UNCHANGED response
       ELSE LeaveFinally(r)
    /\ UNCHANGED audio_vars
    /\ UNCHANGED <<GLOBAL_FACE_APP, has_live_image, reference_url, unique_id, files,
                   pending, verification_result, seen_live, seen_ref, saved,
                   downloaded, faces_live, faces_ref, steps>>

\* finally: os.remove(firebase_temp_path)
RemoveFirebase(r) ==
    /\ pc[r] = "remove_firebase"
    /\ IF files[firebase_temp_path(r)].exists
       THEN /\ files' = [files EXCEPT ![firebase_temp_path(r)] = NoFile]
            /\ LeaveFinally(r)
       ELSE /\ RaiseFromFinally(r)
            /\ UNCHANGED files
    /\ UNCHANGED audio_vars
    /\ UNCHANGED <<GLOBAL_FACE_APP, has_live_image, reference_url, unique_id,
                   pending, verification_result, seen_live, seen_ref, saved,
                   downloaded, faces_live, faces_ref, steps>>

\* step 6: build the response from verification_result
Respond(r) ==
    /\ pc[r] = "respond"
    /\ response' = [response EXCEPT ![r] = <<BuildResponse(verification_result[r][1])>>]
    /\ pc' = [pc EXCEPT ![r] = "done"]
    /\ steps' = Append1(r, "respond")
    /\ UNCHANGED audio_vars
    /\ UNCHANGED <<GLOBAL_FACE_APP, has_live_image, reference_url, unique_id, files,
                   pending, verification_result, seen_live, seen_ref, saved,
                   downloaded, faces_live, faces_ref>>

\* ------------------------------------- convert_video_to_audio (api/utils.py)
\* outcome "ok": the mp3 is written and its path returned; "fails_before_write":
\* VideoFileClip or clip.audio raised; "fails_in_write": write_audiofile raised
\* after creating the file. Every exception is re-raised to the caller.
convert_video_to_audio(outcome) ==
    [returns |-> outcome = "ok",
     writes |-> outcome # "fails_before_write",
     complete |-> outcome = "ok"]

\* ------------------------------------------- convert_video_to_audio_api
SerializerErrors ==
    [status |-> HTTP_400_BAD_REQUEST,
     body |-> [error |-> Msg("video_file: No file was submitted.", "", 0)]]

AudioStream ==
    [status |-> HTTP_201_CREATED,
     body |-> [attachment |-> Msg("audio stream", "", 0)]]

ConversionFailed ==
    [status |-> HTTP_500_INTERNAL_SERVER_ERROR,
     body |-> [error |-> Msg("Conversion failed", "", 0)]]

\* step 1 and the path setup: serializer, makedirs, unique name
AValidate(a) ==
    /\ apc[a] = "request"
    /\ \E valid \in BOOLEAN, makedirs_ok \in BOOLEAN, id \in Ids, name \in Names :
        IF ~valid
        THEN /\ aresponse' = [aresponse EXCEPT ![a] = <<SerializerErrors>>]
             /\ apc' = [apc EXCEPT ![a] = "done"]
             /\ UNCHANGED video_name
        ELSE IF ~makedirs_ok
        THEN /\ aresponse' = [aresponse EXCEPT ![a] = <<Unhandled>>]
             /\ apc' = [apc EXCEPT ![a] = "done"]
             /\ UNCHANGED video_name
        ELSE /\ video_name' = [video_name EXCEPT ![a] = <<id, name>>]
             /\ apc' = [apc EXCEPT ![a] = "save_video"]
             /\ UNCHANGED aresponse
    /\ UNCHANGED <<media, converted_audio_path, conversion>>
    /\ UNCHANGED face_vars

\* step 2: with open(temp_video_path, 'wb+'): write the chunks
ASaveVideo(a) ==
    /\ apc[a] = "save_video"
    /\ \E outcome \in {"ok", "open_fails", "write_fails"} :
        /\ media' = IF outcome = "open_fails" THEN media
                    ELSE [media EXCEPT ![temp_video_path(a)] = File(a, outcome = "ok")]
        /\ apc' = [apc EXCEPT ![a] = IF outcome = "ok" THEN "convert" ELSE "except_video"]
    /\ UNCHANGED <<video_name, converted_audio_path, conversion, aresponse>>
    /\ UNCHANGED face_vars

\* step 3: converted_audio_path = convert_video_to_audio(...)
AConvert(a) ==
    /\ apc[a] = "convert"
    /\ \E outcome \in {"ok", "fails_before_write", "fails_in_write"} :
        LET c == convert_video_to_audio(outcome)
        IN  \* a source video that is gone cannot be opened
            /\ media[temp_video_path(a)].exists \/ outcome = "fails_before_write"
            /\ media' = IF c.writes
                        THEN [media EXCEPT ![output_path(a)] = File(a, c.complete)]
                        ELSE media
            /\ conversion' = [conversion EXCEPT ![a] = IF c.returns THEN "ok" ELSE "failed"]
            /\ converted_audio_path' = [converted_audio_path EXCEPT ![a] = c.returns]
            /\ apc' = [apc EXCEPT ![a] = IF c.returns THEN "build_response" ELSE "except_video"]
    /\ UNCHANGED <<video_name, aresponse>>
    /\ UNCHANGED face_vars

\* step 4: guess_type, open(converted_audio_path, 'rb'), FileResponse, getsize
ABuildResponse(a) ==
    /\ apc[a] = "build_response"
    /\ \E raises \in BOOLEAN :
        apc' = [apc EXCEPT ![a] = IF media[output_path(a)].exists /\ ~raises
                                   THEN "remove_video" ELSE "except_video"]
    /\ UNCHANGED <<video_name, media, converted_audio_path, conversion, aresponse>>
    /\ UNCHANGED face_vars

\* variant: the success path returns without removing the source video
ARemoveVideoSkipped(a) ==
    /\ apc[a] = "remove_video"
    /\ aresponse' = [aresponse EXCEPT ![a] = <<AudioStream>>]
    /\ apc' = [apc EXCEPT ![a] = "done"]
    /\ UNCHANGED <<video_name, media, converted_audio_path, conversion>>
    /\ UNCHANGED face_vars

\* steps 5 and 6: os.remove(temp_video_path); return response
ARemoveVideo(a) ==
    /\ apc[a] = "remove_video"
    /\ IF media[temp_video_path(a)].exists
       THEN /\ media' = [media EXCEPT ![temp_video_path(a)] = NoFile]
            /\ aresponse' = [aresponse EXCEPT ![a] = <<AudioStream>>]
            /\ apc' = [apc EXCEPT ![a] = "done"]
       ELSE /\ apc' = [apc EXCEPT ![a] = "except_video"]
            /\ UNCHANGED <<media, aresponse>>
    /\ UNCHANGED <<video_name, converted_audio_path, conversion>>
    /\ UNCHANGED face_vars

\* except: if os.path.exists(temp_video_path)
AExceptVideo(a) ==
    /\ apc[a] = "except_video"
    /\ apc' = [apc EXCEPT ![a] = IF media[temp_video_path(a)].exists
                                 THEN "except_remove_video" ELSE "except_audio"]
    /\ UNCHANGED <<video_name, media, converted_audio_path, conversion, aresponse>>
    /\ UNCHANGED face_vars

\* except: os.remove(temp_video_path)
AExceptRemoveVideo(a) ==
    /\ apc[a] = "except_remove_video"
    /\ IF media[temp_video_path(a)].exists
       THEN /\ media' = [media EXCEPT ![temp_video_path(a)] = NoFile]
            /\ apc' = [apc EXCEPT ![a] = "except_audio"]
            /\ UNCHANGED aresponse
       ELSE /\ aresponse' = [aresponse EXCEPT ![a] = <<Unhandled>>]
            /\ apc' = [apc EXCEPT ![a] = "done"]
            /\ UNCHANGED media
    /\ UNCHANGED <<video_name, converted_audio_path, conversion>>
    /\ UNCHANGED face_vars

\* except: if converted_audio_path and os.path.exists(converted_audio_path)
AExceptAudio(a) ==
    /\ apc[a] = "except_audio"
    /\ IF converted_audio_path[a] /\ media[output_path(a)].exists
       THEN /\ apc' = [apc EXCEPT ![a] = "except_remove_audio"]
            /\ UNCHANGED aresponse
       ELSE /\ aresponse' = [aresponse EXCEPT ![a] = <<ConversionFailed>>]
            /\ apc' = [apc EXCEPT ![a] = "done"]
    /\ UNCHANGED <<video_name, media, converted_audio_path, conversion>>
    /\ UNCHANGED face_vars

\* except: os.remove(converted_audio_path); return the 500 response
AExceptRemoveAudio(a) ==
    /\ apc[a] = "except_remove_audio"
    /\ IF media[output_path(a)].exists
       THEN /\ media' = [media EXCEPT ![output_path(a)] = NoFile]
            /\ aresponse' = [aresponse EXCEPT ![a] = <<ConversionFailed>>]
       ELSE /\ aresponse' = [aresponse EXCEPT ![a] = <<Unhandled>>]
            /\ UNCHANGED media
    /\ apc' = [apc EXCEPT ![a] = "done"]
    /\ UNCHANGED <<video_name, converted_audio_path, conversion>>
    /\ UNCHANGED face_vars

NextAudio ==
    \E a \in Convs :
        \/ AValidate(a)
        \/ ASaveVideo(a)
        \/ AConvert(a)
        \/ ABuildResponse(a)
        \/ ARemoveVideo(a)
        \/ AExceptVideo(a)
        \/ AExceptRemoveVideo(a)
        \/ AExceptAudio(a)
        \/ AExceptRemoveAudio(a)

SpecAudio == Init /\ [][NextAudio]_vars

Next ==
    \E r \in Reqs :
        \/ Validate(r)
        \/ SaveLive(r)
        \/ Download(r)
        \/ VerifyLive(r)
        \/ VerifyRef(r)
        \/ FinallyCamera(r)
        \/ RemoveCamera(r)
        \/ FinallyFirebase(r)
        \/ RemoveFirebase(r)
        \/ Respond(r)

Spec == Init /\ [][Next]_vars

\* ================================================================ claims
Resp(r) == response[r][1]

\* the view returned a Response object (no exception left it)
Returned(r) == pc[r] = "done" /\ Resp(r).body # Unhandled.body

InSteps(r, step) == \E i \in 1..Len(steps[r]) : steps[r][i] = step

Pos(r, step) == CHOOSE i \in 1..Len(steps[r]) : steps[r][i] = step

OwnFileAt(r, p) == files[p].exists /\ files[p].owner = r

ResponseKeys == {"matched", "distance", "threshold", "message"}

\* C1: once the response of a request that passed validation has been returned,
\* no temp file written for that request is left on disk.
C1_NoTempFileLeft ==
    \A r \in Reqs :
        (pc[r] = "done" /\ unique_id[r] # 0) => \A p \in Paths : ~OwnFileAt(r, p)

\* C2: a request without live_image or without a non-empty reference_url is
\* answered 400 before anything is written, downloaded or verified, and the
\* missing live_image is the error reported when both are missing.
C2_MissingFieldRejected ==
    \A r \in Reqs :
        (pc[r] # "request" /\ (~has_live_image[r] \/ reference_url[r] # "url")) =>
            /\ pc[r] = "done"
            /\ Resp(r).status = HTTP_400_BAD_REQUEST
            /\ steps[r] = <<"validate">>
            /\ unique_id[r] = 0 /\ saved[r] = "none" /\ downloaded[r] = "none"
            /\ verification_result[r] = <<>>
            /\ \A p \in Paths : files[p].owner # r
            /\ (~has_live_image[r] => Resp(r) = MissingLiveImage)
            /\ (has_live_image[r] => Resp(r) = MissingReferenceUrl)

C2_Witness ==
    \E r \in Reqs :
        /\ pc[r] = "done" /\ ~has_live_image[r] /\ reference_url[r] = "absent"
        /\ Resp(r) = MissingLiveImage

C5_FixedShape ==
    \A r \in Reqs :
        (pc[r] = "done" /\ Resp(r).status = HTTP_200_OK) =>
            /\ DOMAIN Resp(r).body = ResponseKeys
            /\ Resp(r).body.matched \in BOOLEAN
            /\ Resp(r).body.distance \in Int
            /\ Resp(r).body.threshold \in Int

C5_Witness ==
    \E r1, r2 \in Reqs :
        /\ pc[r1] = "done" /\ Resp(r1).status = HTTP_200_OK
        /\ verification_result[r1] = <<ProcessingFailed>>
        /\ pc[r2] = "done" /\ Resp(r2).status = HTTP_200_OK
        /\ Resp(r2).body.matched = TRUE

\* C7 as stated: the steps run in the order validate, materialize, verify,
\* normalize, cleanup, with cleanup last.
C7_CleanupAfterNormalize ==
    \A r \in Reqs :
        InSteps(r, "respond") =>
            /\ InSteps(r, "cleanup")
            /\ Pos(r, "respond") < Pos(r, "cleanup")

\* C7 amended: the steps run in the order validate, materialize live image,
\* materialize reference image, verify, cleanup, normalize; the verifier is
\* invoked only after both files were fully written, and cleanup runs after the
\* verifier and before the response is built.
C7_PipelineOrder ==
    \A r \in Reqs :
        /\ InSteps(r, "verify") =>
            /\ saved[r] = "ok" /\ downloaded[r] = "ok"
            /\ SubSeq(steps[r], 1, 4) = <<"validate", "save_live", "download_ref", "verify">>
        /\ InSteps(r, "respond") =>
            steps[r] = <<"validate", "save_live", "download_ref", "verify",
                         "cleanup", "respond">>

C7_Witness ==
    \E r \in Reqs :
        /\ pc[r] = "done"
        /\ steps[r] = <<"validate", "save_live", "download_ref", "verify",
                        "cleanup", "respond">>

\* C8: under every interleaving each request's verifier reads exactly the two
\* images that request wrote.
C8_VerifierSeesOwnImages ==
    \A r \in Reqs :
        /\ seen_live[r] \in {"unread", "own"}
        /\ seen_ref[r] \in {"unread", "own"}

\* C9: matched is true exactly when the model is loaded, one face was found in
\* each image, nothing raised and the similarity is strictly above the
\* threshold; the success message goes with matched = true and only with it.
C9_MatchedIff ==
    \A r \in Reqs :
        (pc[r] = "done" /\ Resp(r).status = HTTP_200_OK) =>
            /\ Resp(r).body.matched = TRUE <=>
                /\ GLOBAL_FACE_APP
                /\ faces_live[r] = 1 /\ faces_ref[r] = 1
                /\ verification_result[r] # <<ProcessingFailed>>
                /\ verification_result[r][1].similarity > VERIFICATION_THRESHOLD
            /\ Resp(r).body.message = Msg("Face verified successfully.", "", 0)
                   <=> Resp(r).body.matched = TRUE

C9_Witness ==
    \E r1, r2 \in Reqs :
        /\ pc[r1] = "done" /\ Resp(r1).status = HTTP_200_OK
        /\ Resp(r1).body.matched = TRUE
        /\ pc[r2] = "done" /\ Resp(r2).status = HTTP_200_OK
        /\ faces_live[r2] = 1 /\ faces_ref[r2] = 1
        /\ Resp(r2).body.distance = VERIFICATION_THRESHOLD
        /\ Resp(r2).body.matched = FALSE

AResp(a) == aresponse[a][1]

OwnMediaAt(a, p) == media[p].exists /\ media[p].owner = a

\* C6: when convert_video_to_audio_api has ended for a request that passed
\* validation, on the 201 path and on every failure path, the source video
\* saved for that request is no longer under MEDIA_ROOT/uploads.
C6_SourceVideoRemoved ==
    \A a \in Convs :
        (apc[a] = "done" /\ video_name[a] # <<>>) => ~OwnMediaAt(a, temp_video_path(a))

C6_Witness ==
    \E a1, a2 \in Convs :
        /\ video_name[a1] # <<>> /\ video_name[a2] # <<>>
        /\ video_name[a1] # video_name[a2]
        /\ apc[a1] = "done" /\ AResp(a1) = AudioStream
        /\ apc[a2] = "done" /\ AResp(a2) = ConversionFailed /\ conversion[a2] = "failed"

\* C10: whenever the endpoint answers 500, no audio file written by that request
\* is left under MEDIA_ROOT/audio_output.
C10_NoAudioLeftOnError ==
    \A a \in Convs :
        (apc[a] = "done" /\ AResp(a) = ConversionFailed) =>
            ~OwnMediaAt(a, output_path(a))

====
